---- MODULE Spec2Model ----
(***************************************************************************)
(* The expense tracker page (client/pages/Index.tsx): one React component  *)
(* holding the expense list and the form fields, two effects that load and *)
(* save the list through localStorage["expenses"], the add and delete      *)
(* handlers, and the three aggregates computed on every render.            *)
(*                                                                         *)
(* Text is a sequence of one-character strings.  Time is counted in ticks  *)
(* of the clock behind Date.now(); a calendar day has TicksPerDay ticks, a *)
(* month DaysPerMonth days and a year MonthsPerYear months.                *)
(*                                                                         *)
(* Spec is the page from the first mount on a slot of any content.         *)
(* SpecStored is the page at rest on any list stored by earlier sessions,  *)
(* with the deletes and saves that follow.                                 *)
(***************************************************************************)
EXTENDS Integers, Sequences, FiniteSets, TLC

VARIABLES
    pc,           \* where the page is: closed, load, save, render, idle, crashed
    expenses,     \* useState<Expense[]>([]), as last rendered
    queued,       \* the setExpenses update the load effect queued, if any
    description,  \* useState("")
    amount,       \* useState("")
    category,     \* useState("Food")
    slot,         \* localStorage item "expenses"
    now,          \* the clock behind Date.now() and new Date()
    tz,           \* the user's offset from UTC, in ticks (local = UTC + tz)
    toast,        \* description of the toast last shown
    mountSlot     \* the slot as it was when the page was mounted, until the
                  \* first add or delete of the session (history)

vars == <<pc, expenses, queued, description, amount, category, slot, now, tz,
          toast, mountSlot>>

----
\* Bounds of the model.

MaxLen == 3
MaxNow == 2
MaxCat == 2
TicksPerDay == 2
DaysPerMonth == 2
MonthsPerYear == 2

----
\* Text helpers.

Digits == <<"0", "1", "2", "3", "4", "5", "6", "7", "8", "9">>

IsDigit(c) == \E i \in 1..Len(Digits) : Digits[i] = c

DigitValue(c) == (CHOOSE i \in 1..Len(Digits) : Digits[i] = c) - 1

IsSpace(c) == c = " "

RECURSIVE TrimStart(_)
TrimStart(s) ==
    IF s # <<>> /\ IsSpace(Head(s)) THEN TrimStart(Tail(s)) ELSE s

RECURSIVE TrimEnd(_)
TrimEnd(s) ==
    IF s # <<>> /\ IsSpace(s[Len(s)]) THEN TrimEnd(SubSeq(s, 1, Len(s) - 1)) ELSE s

\* String.prototype.trim
trim(s) == TrimEnd(TrimStart(s))

\* The longest prefix of s made of decimal digits.
RECURSIVE DigitPrefix(_)
DigitPrefix(s) ==
    IF s # <<>> /\ IsDigit(Head(s)) THEN <<Head(s)>> \o DigitPrefix(Tail(s)) ELSE <<>>

RECURSIVE DecimalValue(_)
DecimalValue(ds) ==
    IF ds = <<>> THEN 0
    ELSE 10 * DecimalValue(SubSeq(ds, 1, Len(ds) - 1)) + DigitValue(ds[Len(ds)])

NaN == [nan |-> TRUE, value |-> 0]

\* parseFloat: skips leading white space, reads an optional sign and the
\* longest run of digits, ignores what follows; NaN when no digit is read.
parseFloat(s) ==
    LET t    == TrimStart(s)
        neg  == t # <<>> /\ Head(t) = "-"
        body == IF t # <<>> /\ Head(t) \in {"-", "+"} THEN Tail(t) ELSE t
        ds   == DigitPrefix(body)
    IN  IF ds = <<>> THEN NaN
        ELSE [nan |-> FALSE,
              value |-> IF neg THEN 0 - DecimalValue(ds) ELSE DecimalValue(ds)]

\* <input type="number">: the value the element reports is the typed text
\* when that is a valid floating-point number, and the empty string otherwise.
NumberInputValue(typed) ==
    LET body == IF typed # <<>> /\ Head(typed) = "-" THEN Tail(typed) ELSE typed
    IN  IF body # <<>> /\ DigitPrefix(body) = body THEN typed ELSE <<>>

----
\* The calendar.

\* Year, month and day of the calendar day numbered d.
CalendarDate(d) ==
    [year  |-> d \div (DaysPerMonth * MonthsPerYear),
     month |-> (d \div DaysPerMonth) % MonthsPerYear,
     day   |-> d % DaysPerMonth]

\* new Date().toISOString().split("T")[0]: the UTC calendar date of instant t.
ISODate(t) == CalendarDate(t \div TicksPerDay)

\* new Date("YYYY-MM-DD"): the instant of that date's UTC midnight.
DateFromISO(str) ==
    ((str.year * MonthsPerYear + str.month) * DaysPerMonth + str.day) * TicksPerDay

\* getMonth() and getFullYear(): the fields of instant t in local time.
LocalDate(t) == CalendarDate((t + tz) \div TicksPerDay)

getMonth(t) == LocalDate(t).month

getFullYear(t) == LocalDate(t).year

----
\* Values and JSON.

CATEGORIES ==
    <<"Food", "Transport", "Entertainment", "Shopping", "Utilities",
      "Healthcare", "Other">>

\* interface Expense: the object addExpense builds.
Expense(id, desc, amt, cat, date) ==
    [id |-> id, description |-> desc, amount |-> amt, category |-> cat, date |-> date]

\* JSON documents: null, numbers, strings, arrays, and objects as the sequence
\* of their members in property order.
JNull == [j |-> "null"]

JNumber(n) == [j |-> "number", n |-> n]

JString(s) == [j |-> "string", s |-> s]

JObject(members) == [j |-> "object", members |-> members]

JArray(items) == [j |-> "array", items |-> items]

\* What localStorage.getItem("expenses") can return: null (no item), the empty
\* string, text that is not JSON, or the text of a JSON document.
NoItem == [kind |-> "absent"]

EmptyText == [kind |-> "empty"]

MalformedText == [kind |-> "malformed"]

JSONText(doc) == [kind |-> "json", doc |-> doc]

\* JSON.stringify of one Expense: its own properties in creation order.
StringifyExpense(e) ==
    JObject(<< <<"id", JString(e.id)>>,
               <<"description", JString(e.description)>>,
               <<"amount", JNumber(e.amount)>>,
               <<"category", JString(e.category)>>,
               <<"date", JString(e.date)>> >>)

RECURSIVE StringifyItems(_)
StringifyItems(xs) ==
    IF xs = <<>> THEN <<>>
    ELSE <<StringifyExpense(Head(xs))>> \o StringifyItems(Tail(xs))

\* JSON.stringify(expenses)
JSONstringify(xs) == JSONText(JArray(StringifyItems(xs)))

\* The JavaScript value of a member's JSON value.
ParseMember(v) == IF v.j = "string" THEN v.s ELSE v.n

\* The object with the given members (a later member overrides an earlier
\* one of the same name).
ParseObject(members) ==
    [k \in {members[i][1] : i \in 1..Len(members)} |->
        LET last == CHOOSE i \in 1..Len(members) :
                        /\ members[i][1] = k
                        /\ \A n \in (i + 1)..Len(members) : members[n][1] # k
        IN  ParseMember(members[last][2])]

RECURSIVE ParseDoc(_)
ParseDoc(doc) ==
    IF doc.j = "array"
    THEN [t |-> "array",
          items |-> IF doc.items = <<>> THEN <<>>
                    ELSE <<ParseDoc(Head(doc.items))>>
                         \o ParseDoc(JArray(Tail(doc.items))).items]
    ELSE IF doc.j = "object" THEN [t |-> "object", o |-> ParseObject(doc.members)]
    ELSE IF doc.j = "number" THEN [t |-> "number", n |-> doc.n]
    ELSE [t |-> "null"]

\* JSON.parse: the value of a JSON text; throws SyntaxError on anything else.
JSONparse(text) ==
    IF text.kind = "json" THEN [threw |-> FALSE, value |-> ParseDoc(text.doc)]
    ELSE [threw |-> TRUE, value |-> [t |-> "null"]]

\* Mutant of Truthy: the test of the load effect inverted.
TruthyInverted(text) == text.kind \in {"absent", "empty"}

\* if (savedExpenses): null and the empty string are falsy.
Truthy(text) == text.kind \notin {"absent", "empty"}

\* The elements of an array value, as the component holds them.
RECURSIVE Elements(_)
Elements(items) ==
    IF items = <<>> THEN <<>> ELSE <<Head(items).o>> \o Elements(Tail(items))

\* Rendering throws a TypeError when expenses has no reduce (it is not an
\* array) or an element has no amount to call toFixed on.
RenderThrows(v) ==
    \/ v.t # "array"
    \/ \E i \in 1..Len(v.items) :
          \/ v.items[i].t # "object"
          \/ "amount" \notin DOMAIN v.items[i].o

----
\* The aggregates, computed on every render.

RECURSIVE SumAmounts(_)
SumAmounts(xs) ==
    IF xs = <<>> THEN 0 ELSE Head(xs).amount + SumAmounts(Tail(xs))

totalExpenses == SumAmounts(expenses)

\* The filter of monthlyExpenses: the record's date, read back as an instant,
\* has the local month and year of today.
InCurrentMonth(exp) ==
    LET expDate == DateFromISO(exp.date)
        today   == now
    IN  /\ getMonth(expDate) = getMonth(today)
        /\ getFullYear(expDate) = getFullYear(today)

monthlyExpenses == SumAmounts(SelectSeq(expenses, InCurrentMonth))

\* categoryTotals after the forEach over the first n records: the entries in
\* the order their keys were first assigned.
RECURSIVE TotalsAfter(_)
TotalsAfter(n) ==
    IF n = 0 THEN <<>>
    ELSE LET prev == TotalsAfter(n - 1)
             exp  == expenses[n]
         IN  IF \E i \in 1..Len(prev) : prev[i][1] = exp.category
             THEN [i \in 1..Len(prev) |->
                     IF prev[i][1] = exp.category
                     THEN <<prev[i][1], prev[i][2] + exp.amount>>
                     ELSE prev[i]]
             ELSE Append(prev, <<exp.category, exp.amount>>)

categoryTotals == TotalsAfter(Len(expenses))

\* The comparator of the sort: ([, a], [, b]) => b - a.
Compare(a, b) == b[2] - a[2]

\* Mutant of InsertSorted: an unstable sort, which lets a later entry pass an
\* equal earlier one.
RECURSIVE InsertSortedUnstable(_, _)
InsertSortedUnstable(sorted, x) ==
    IF sorted = <<>> THEN <<x>>
    ELSE IF Compare(Head(sorted), x) >= 0 THEN <<x>> \o sorted
    ELSE <<Head(sorted)>> \o InsertSortedUnstable(Tail(sorted), x)

\* Array.prototype.sort with that comparator: stable, so x goes behind every
\* entry it does not have to precede.
RECURSIVE InsertSorted(_, _)
InsertSorted(sorted, x) ==
    IF sorted = <<>> THEN <<x>>
    ELSE IF Compare(Head(sorted), x) > 0 THEN <<x>> \o sorted
    ELSE <<Head(sorted)>> \o InsertSorted(Tail(sorted), x)

RECURSIVE Sort(_)
Sort(entries) ==
    IF entries = <<>> THEN <<>>
    ELSE InsertSorted(Sort(SubSeq(entries, 1, Len(entries) - 1)), entries[Len(entries)])

Undefined == <<>>

\* Object.entries(categoryTotals).sort(...)[0]
topCategory ==
    LET sorted == Sort(categoryTotals)
    IN  IF sorted = <<>> THEN Undefined ELSE sorted[1]

----
\* What the user can type and pick, and what the slot can hold at first.

TypedDescriptions == {<<>>, <<" ">>, <<" ", "x", " ">>}

TypedAmounts ==
    {<<>>, <<"a", "b", "c">>, <<"0">>, <<"-", "5">>, <<"5">>, <<"1", "0">>}

\* The options of the <select> the user picks among.
PickedCategories == {CATEGORIES[i] : i \in 1..MaxCat}

Offsets == {-1, 0, 1}

InitialSlots ==
    {NoItem, EmptyText, MalformedText, JSONText(JNull), JSONText(JObject(<<>>)),
     JSONText(JArray(<<JNumber(5)>>))}

NoUpdate == [t |-> "none"]

Unset == [kind |-> "unset"]

NoToast == "none"

----
\* The page.

Init ==
    /\ pc = "closed"
    /\ expenses = <<>>
    /\ queued = NoUpdate
    /\ description = <<>>
    /\ amount = <<>>
    /\ category = "Food"
    /\ slot \in InitialSlots
    /\ now = 0
    /\ tz \in Offsets
    /\ toast = NoToast
    /\ mountSlot = Unset

\* The first render of Index: every useState at its initial value.
Mount ==
    /\ pc = "closed"
    /\ pc' = "load"
    /\ expenses' = <<>>
    /\ queued' = NoUpdate
    /\ description' = <<>>
    /\ amount' = <<>>
    /\ category' = "Food"
    /\ toast' = NoToast
    /\ mountSlot' = slot
    /\ UNCHANGED <<slot, now, tz>>

\* useEffect(() => { ... }, []): the load effect, run once after the first
\* render.  setExpenses queues the parsed value, whatever it is, for the next
\* render; a SyntaxError of JSON.parse is caught and goes to console.error
\* only, so nothing is queued.
LoadEffect ==
    /\ pc = "load"
    /\ LET savedExpenses == slot
           parsed        == JSONparse(savedExpenses)
       IN  queued' = IF Truthy(savedExpenses) /\ ~parsed.threw
                     THEN parsed.value
                     ELSE queued
    /\ pc' = "save"
    /\ UNCHANGED <<expenses, description, amount, category, slot, now, tz,
                   toast, mountSlot>>

\* Mutant of AfterCommit: a save effect that never runs again after the mount.
AfterCommitOnce(setExpensesCalled) == "idle"

\* The dependency array [expenses] of the save effect: after a render the
\* effect is due again exactly when setExpenses has put a new array in the
\* state (every array the handlers and the load effect pass is a new one).
AfterCommit(setExpensesCalled) == IF setExpensesCalled THEN "save" ELSE "idle"

\* Where the page goes once the save effect has run: to the render of a
\* queued update, if there is one.
AfterSave(q) == IF q = NoUpdate THEN "idle" ELSE "render"

\* useEffect(() => { ... }, [expenses]): the save effect, run after the first
\* render and after every render in which expenses is a new array.
SaveEffect ==
    /\ pc = "save"
    /\ slot' = JSONstringify(expenses)
    /\ pc' = AfterSave(queued)
    /\ UNCHANGED <<expenses, queued, description, amount, category, now, tz,
                   toast, mountSlot>>

\* The render of the update the load effect queued.  A render that throws
\* takes the page down; otherwise expenses is a new array and the save
\* effect is due.
Render ==
    /\ pc = "render"
    /\ IF RenderThrows(queued)
       THEN /\ pc' = "crashed"
            /\ UNCHANGED expenses
       ELSE /\ pc' = AfterCommit(TRUE)
            /\ expenses' = Elements(queued.items)
    /\ queued' = NoUpdate
    /\ UNCHANGED <<description, amount, category, slot, now, tz, toast, mountSlot>>

\* onChange of the description input.
SetDescription(typed) ==
    /\ pc = "idle"
    /\ description' = typed
    /\ pc' = AfterCommit(FALSE)
    /\ UNCHANGED <<expenses, queued, amount, category, slot, now, tz, toast,
                   mountSlot>>

\* onChange of the amount input, a number input.
SetAmount(typed) ==
    /\ pc = "idle"
    /\ amount' = NumberInputValue(typed)
    /\ pc' = AfterCommit(FALSE)
    /\ UNCHANGED <<expenses, queued, description, category, slot, now, tz,
                   toast, mountSlot>>

\* onChange of the category select.
SetCategory(picked) ==
    /\ pc = "idle"
    /\ category' = picked
    /\ pc' = AfterCommit(FALSE)
    /\ UNCHANGED <<expenses, queued, description, amount, slot, now, tz,
                   toast, mountSlot>>

\* The first guard of addExpense.
FieldsMissing == trim(description) = <<>> \/ trim(amount) = <<>>

\* Mutant of AmountInvalid: the comparison lets zero through.
AmountInvalidBelowZero(numAmount) == numAmount.nan \/ numAmount.value < 0

\* The second guard of addExpense.
AmountInvalid(numAmount) == numAmount.nan \/ numAmount.value <= 0

\* const newExpense: Expense = { ... }
newExpense(numAmount) ==
    Expense(ToString(now), trim(description), numAmount.value, category, ISODate(now))

\* Mutant of WithNew: the new record put behind the others.
WithNewLast(exp, list) == list \o <<exp>>

\* [newExpense, ...expenses]
WithNew(exp, list) == <<exp>> \o list

\* addExpense, with the render of the state it sets: React renders the update
\* of a click or key handler before it runs anything else.  The handler reads
\* the fields and the list of the latest render.
addExpense ==
    /\ pc = "idle"
    /\ mountSlot' = Unset
    /\ IF FieldsMissing
       THEN /\ toast' = "Please fill in all fields"
            /\ UNCHANGED <<pc, expenses, description, amount, category>>
       ELSE LET numAmount == parseFloat(amount)
            IN  IF AmountInvalid(numAmount)
                THEN /\ toast' = "Please enter a valid amount"
                     /\ UNCHANGED <<pc, expenses, description, amount, category>>
                ELSE /\ Len(expenses) < MaxLen
                     /\ expenses' = WithNew(newExpense(numAmount), expenses)
                     /\ description' = <<>>
                     /\ amount' = <<>>
                     /\ category' = "Food"
                     /\ toast' = "Expense added successfully"
                     /\ pc' = AfterCommit(TRUE)
    /\ UNCHANGED <<queued, slot, now, tz>>

\* Mutant of Without: the filter keeps what it should remove.
WithoutOthers(id, list) == SelectSeq(list, LAMBDA exp : exp.id = id)

\* expenses.filter((exp) => exp.id !== id)
Without(id, list) == SelectSeq(list, LAMBDA exp : exp.id # id)

\* deleteExpense, with the render of the state it sets.
deleteExpense(id) ==
    /\ pc = "idle"
    /\ mountSlot' = Unset
    /\ expenses' = Without(id, expenses)
    /\ toast' = "Expense removed successfully"
    /\ pc' = AfterCommit(TRUE)
    /\ UNCHANGED <<queued, description, amount, category, slot, now, tz>>

\* The clock advances.
Tick ==
    /\ pc \in {"idle", "closed"}
    /\ now < MaxNow
    /\ now' = now + 1
    /\ UNCHANGED <<pc, expenses, queued, description, amount, category, slot, tz,
                   toast, mountSlot>>

\* The user leaves or reloads the page: the component's state is gone, the
\* slot stays.
Reload ==
    /\ pc \in {"idle", "crashed"}
    /\ pc' = "closed"
    /\ expenses' = <<>>
    /\ queued' = NoUpdate
    /\ description' = <<>>
    /\ amount' = <<>>
    /\ category' = "Food"
    /\ toast' = NoToast
    /\ mountSlot' = Unset
    /\ UNCHANGED <<slot, now, tz>>

\* The ids deleteExpense can be called with: those the clock can have given,
\* on screen or not.
Ids == {ToString(t) : t \in 0..MaxNow}

Next ==
    \/ Mount
    \/ LoadEffect
    \/ SaveEffect
    \/ Render
    \/ \E typed \in TypedDescriptions : SetDescription(typed)
    \/ \E typed \in TypedAmounts : SetAmount(typed)
    \/ \E picked \in PickedCategories : SetCategory(picked)
    \/ addExpense
    \/ \E id \in Ids : deleteExpense(id)
    \/ Tick
    \/ Reload

Spec == Init /\ [][Next]_vars

----
\* The page at rest on a store brought back from earlier sessions: any list of
\* up to MaxLen records, newest first, of any amounts and categories.

StoredAmounts == {5, 10}

CategorySet == {CATEGORIES[i] : i \in 1..Len(CATEGORIES)}

\* The list, newest first, whose records were added at the ticks 0, 1, ...
\* with the drawn amounts and categories.
StoredList(draw) ==
    [i \in 1..Len(draw) |->
        Expense(ToString(Len(draw) - i), <<"x">>, draw[i][1], draw[i][2],
                ISODate(Len(draw) - i))]

StoredLengths == {n \in 0..MaxLen : n <= MaxNow + 1}

InitStored ==
    /\ pc = "idle"
    /\ \E n \in StoredLengths :
          \E draw \in [1..n -> StoredAmounts \X CategorySet] :
              expenses = StoredList(draw)
    /\ queued = NoUpdate
    /\ description = <<>>
    /\ amount = <<>>
    /\ category = "Food"
    /\ slot = JSONstringify(expenses)
    /\ now = MaxNow
    /\ tz \in Offsets
    /\ toast = NoToast
    /\ mountSlot = Unset

NextStored ==
    \/ SaveEffect
    \/ \E id \in Ids : deleteExpense(id)

SpecStored == InitStored /\ [][NextStored]_vars

----
\* Notions the properties are stated in.

HasVisibleChar(s) == \E i \in 1..Len(s) : s[i] # " "

\* s without its leading and trailing spaces.
Stripped(s) ==
    LET visible == {i \in 1..Len(s) : s[i] # " "}
        first   == CHOOSE i \in visible : \A k \in visible : i <= k
        last    == CHOOSE i \in visible : \A k \in visible : k <= i
    IN  IF visible = {} THEN <<>> ELSE SubSeq(s, first, last)

IsNumeral(s) == s # <<>> /\ \A i \in 1..Len(s) : IsDigit(s[i])

RECURSIVE NumeralSum(_, _)
NumeralSum(s, n) ==
    IF n = 0 THEN 0
    ELSE NumeralSum(s, n - 1) + DigitValue(s[n]) * 10 ^ (Len(s) - n)

\* The text is a decimal numeral of a positive number.
IsPositiveAmount(s) == IsNumeral(s) /\ NumeralSum(s, Len(s)) > 0

FormValid ==
    /\ HasVisibleChar(description)
    /\ IsPositiveAmount(amount)
    /\ category \in CategorySet

ValidationErrors == {"Please fill in all fields", "Please enter a valid amount"}

IsExpenseObject(doc) ==
    /\ doc.j = "object"
    /\ Len(doc.members) = 5
    /\ <<doc.members[1][1], doc.members[2][1], doc.members[3][1],
         doc.members[4][1], doc.members[5][1]>>
         = <<"id", "description", "amount", "category", "date">>
    /\ doc.members[3][2].j = "number"
    /\ \A i \in {1, 2, 4, 5} : doc.members[i][2].j = "string"

\* The text is the serialization of a list of expense records.
IsRecordListText(text) ==
    /\ text.kind = "json"
    /\ text.doc.j = "array"
    /\ \A i \in 1..Len(text.doc.items) : IsExpenseObject(text.doc.items[i])

\* The record a serialized expense object stands for.
RecordOf(doc) ==
    Expense(doc.members[1][2].s, doc.members[2][2].s, doc.members[3][2].n,
            doc.members[4][2].s, doc.members[5][2].s)

\* The record list a serialization stands for.
ListOf(text) == [i \in 1..Len(text.doc.items) |-> RecordOf(text.doc.items[i])]

\* The amounts of category c among the first n records, summed.
RECURSIVE CategorySum(_, _)
CategorySum(c, n) ==
    IF n = 0 THEN 0
    ELSE CategorySum(c, n - 1)
         + (IF expenses[n].category = c THEN expenses[n].amount ELSE 0)

UsedCategories == {expenses[i].category : i \in 1..Len(expenses)}

FirstIndex(c) ==
    CHOOSE i \in 1..Len(expenses) :
        /\ expenses[i].category = c
        /\ \A k \in 1..(i - 1) : expenses[k].category # c

IsTop(c) ==
    /\ c \in UsedCategories
    /\ \A d \in UsedCategories :
          \/ CategorySum(d, Len(expenses)) < CategorySum(c, Len(expenses))
          \/ /\ CategorySum(d, Len(expenses)) = CategorySum(c, Len(expenses))
             /\ FirstIndex(c) <= FirstIndex(d)

\* The amounts of the first n records whose stored date lies in month m of
\* year y, summed.
RECURSIVE MonthSum(_, _, _)
MonthSum(y, m, n) ==
    IF n = 0 THEN 0
    ELSE MonthSum(y, m, n - 1)
         + (IF expenses[n].date.year = y /\ expenses[n].date.month = m
            THEN expenses[n].amount ELSE 0)

\* The positions of the records a delete of id keeps.
Kept(id) == {i \in 1..Len(expenses) : expenses[i].id # id}

NthKept(id, n) ==
    CHOOSE i \in Kept(id) : Cardinality({k \in Kept(id) : k <= i}) = n

----
\* The properties.

\* C1: an add with a description that is not blank and an amount that is a
\* positive number puts exactly one new record (trimmed description, parsed
\* amount, selected category) in front of the records held before, which
\* follow unchanged and in order.
C1_AddPrepends ==
    [][(addExpense /\ FormValid) =>
          /\ Len(expenses') = Len(expenses) + 1
          /\ expenses'[1].description = Stripped(description)
          /\ expenses'[1].amount = NumeralSum(amount, Len(amount))
          /\ expenses'[1].category = category
          /\ Tail(expenses') = expenses]_vars

\* C1 witness: an add has just put a third record in front of two stored ones.
C1_Witness ==
    /\ pc = "save"
    /\ toast = "Expense added successfully"
    /\ Len(expenses) = 3
    /\ slot = JSONstringify(Tail(expenses))
    /\ expenses[1].amount = 10

\* C2: an add with a blank description, or an amount that is not a positive
\* number, or a category outside the enumerated set shows a validation error
\* and changes neither the record list nor the slot.
C2_InvalidAddRejected ==
    [][(addExpense /\ ~FormValid) =>
          /\ toast' \in ValidationErrors
          /\ expenses' = expenses
          /\ slot' = slot
          /\ pc' = "idle"]_vars

\* C2 witness: an add of a negative amount has just been refused on a store
\* that holds records.
C2_Witness ==
    /\ toast = "Please enter a valid amount"
    /\ amount = <<"-", "5">>
    /\ HasVisibleChar(description)
    /\ expenses # <<>>
    /\ pc = "idle"

\* C3: no two records of the store have the same id.
C3_UniqueIds ==
    \A i, k \in 1..Len(expenses) : i # k => expenses[i].id # expenses[k].id

\* C4: a delete of id X removes the records with id X and nothing else: the
\* records with another id stay, unchanged and in order, and the list is as
\* it was when no record has id X.
C4_DeleteRemovesOnlyId ==
    [][\A id \in Ids : deleteExpense(id) =>
          /\ Len(expenses') = Cardinality(Kept(id))
          /\ \A n \in 1..Len(expenses') : expenses'[n] = expenses[NthKept(id, n)]
          /\ (Kept(id) = 1..Len(expenses) => expenses' = expenses)]_vars

\* C4 witness: a delete has just removed the middle one of three records.
C4_Witness ==
    /\ pc = "save"
    /\ toast = "Expense removed successfully"
    /\ Len(expenses) = 2
    /\ IsRecordListText(slot)
    /\ Len(ListOf(slot)) = 3
    /\ ListOf(slot)[1] = expenses[1]
    /\ ListOf(slot)[3] = expenses[2]

\* C5: whenever the page waits for the next intent, every save is done and the
\* slot holds the serialization of exactly the current record list.
C5_WriteThrough ==
    pc = "idle" => IsRecordListText(slot) /\ ListOf(slot) = expenses

\* C5 witness: the save after a delete has run on a store that still holds
\* records.
C5_Witness ==
    /\ pc = "idle"
    /\ toast = "Expense removed successfully"
    /\ Len(expenses) = 2
    /\ IsRecordListText(slot)

\* C6: when the page was mounted on a slot holding the serialization of a
\* record list L, then once startup has finished the store holds L and the
\* slot holds the serialization of L again.
C6_ReloadRoundTrip ==
    (pc = "idle" /\ IsRecordListText(mountSlot)) =>
        /\ expenses = ListOf(mountSlot)
        /\ slot = mountSlot

\* C6 witness: startup has finished on a slot that held two records.
C6_Witness ==
    /\ pc = "idle"
    /\ IsRecordListText(mountSlot)
    /\ Len(ListOf(mountSlot)) = 2
    /\ Len(expenses) = 2

\* C7: when the slot is absent or does not hold a record list at the mount,
\* the page never goes down, shows no error, and has an empty record list
\* once startup has finished.
C7_BadSlotLoadsEmpty ==
    (mountSlot # Unset /\ ~IsRecordListText(mountSlot)) =>
        /\ pc # "crashed"
        /\ toast = NoToast
        /\ (pc = "idle" => expenses = <<>>)

\* C8: the monthly aggregate is the sum of the amounts of the records whose
\* stored date lies in the month and year of today, in every time zone.
C8_MonthlyByStoredDate ==
    pc = "idle" =>
        monthlyExpenses
            = MonthSum(LocalDate(now).year, LocalDate(now).month, Len(expenses))

\* C9: topCategory is undefined for the empty list; otherwise it is the
\* category with the largest summed amount and, among several such, the one
\* met first in the list, with that sum.
C9_TopCategory ==
    IF expenses = <<>> THEN topCategory = Undefined
    ELSE /\ topCategory # Undefined
         /\ IsTop(topCategory[1])
         /\ topCategory[2] = CategorySum(topCategory[1], Len(expenses))

\* C9 witness: three records, two categories with the same largest sum, and
\* the one met first is not the one with the single largest record.
C9_Witness ==
    /\ Len(expenses) = 3
    /\ expenses[1].category = expenses[3].category
    /\ expenses[2].category # expenses[1].category
    /\ expenses[2].amount = expenses[1].amount + expenses[3].amount
    /\ topCategory[1] = expenses[1].category

\* C10: from the mount on a slot holding a non-empty record list L until the
\* first add or delete, the slot holds the serialization of L.
C10_StartupKeepsSlot ==
    (IsRecordListText(mountSlot) /\ mountSlot.doc.items # <<>>) => slot = mountSlot

====
